---------------------------- MODULE Spec2Model ----------------------------
(***************************************************************************)
(* A model of mnamer's main(): configuration resolution, then the per-file *)
(* loop (parse, search, selection, relocation) and the final summary.      *)
(* Source: src/mnamer/__init__.py                                          *)
(***************************************************************************)
EXTENDS Integers, Sequences, FiniteSets, TLC

VARIABLES
    pc,               \* position in main()
    arguments,        \* option arguments as parsed from the command line
    directives,       \* directive arguments (test_run, config_load)
    options,          \* the option dictionary main() works with
    cfgIdx,           \* index of the next entry of config_file_paths to load
    fileValue,        \* per key: value given by the last loaded file defining it
    nFiles,           \* number of files dir_crawl() returned
    fileIdx,          \* index of the file the loop is at
    detection_count,
    success_count,
    meta,             \* metadata record of the current file
    results,          \* what the provider search yields for the current file
    hits,             \* the candidate list built from results
    selection,        \* the last string input() returned for the current file
    reads,            \* number of input() calls for the current file
    sel,              \* selection state of the current file
    outcome,          \* per file: how its iteration went
    summary,          \* what the final summary printed
    crash,            \* the uncaught exception that ended main(), if any
    moveCalls,        \* per file: number of calls of move()
    console,          \* what the config loop printed, one entry per candidate
    scan,             \* dir_crawl(): its arguments, the file system, its result
    reloc             \* lines 443-459 and move(): inputs and computed paths

vars == <<pc, arguments, directives, options, cfgIdx, fileValue, nFiles,
          fileIdx, detection_count, success_count, meta, results, hits,
          selection, reads, sel, outcome, summary, crash, moveCalls,
          console, scan, reloc>>

\* the state of the parts modelled on their own: the config loop's console
\* output, dir_crawl() and the relocation of one file
PartVars == <<console, scan, reloc>>

None == "None"

(***************************************************************************)
(* Bounds of the model.                                                    *)
(***************************************************************************)
MaxFiles == 2       \* files returned by the crawl
MaxResults == 3     \* results a provider search yields
MaxReads == 2       \* input() calls per file
MaxHitsArg == 2     \* largest max_hits value given on the CLI or in a file
MaxTargets == 2     \* targets given to dir_crawl()
MaxText == 3        \* characters of a formatted template

(***************************************************************************)
(* get_parameters(): defaults and command-line arguments.                  *)
(***************************************************************************)
DefaultMaxHits == 15

OptionKeys == {"batch", "max_hits"}

defaults == [batch |-> FALSE, max_hits |-> DefaultMaxHits, verbose |-> FALSE]

EmptyDict == [k \in {} |-> TRUE]

\* The dictionaries over the option keys with batch values from B and max_hits
\* values from M; a key may be missing.
Dicts(B, M) ==
    {[k \in ks |-> IF k = "batch" THEN b ELSE m] :
        ks \in SUBSET OptionKeys, b \in B, m \in M}

\* What argparse can produce for the options. Every option has default=None
\* and line 163 drops the None entries, so an absent flag is a missing key.
\* --batch is store_true: it is absent or True.
ArgumentValues == Dicts({TRUE}, 1..MaxHitsArg)

DirectiveValues == [test_run : BOOLEAN, config_load : {None, "path"}]

\* options = {**defaults, **{k: v for k, v in arguments.items() if v is not None}}
InitialOptions(args) ==
    [k \in (DOMAIN defaults) \cup (DOMAIN args) |->
        IF k \in DOMAIN args THEN args[k] ELSE defaults[k]]

(***************************************************************************)
(* main(), lines 331-347: the candidate config files, loaded in order.     *)
(***************************************************************************)
\* user_config_dir() + 'mnamer.json', '.mnamer.conf', and the --config_load
\* path when the directive is given.
config_file_paths(d) ==
    IF d.config_load # None THEN <<"user", "cwd", "config_load">>
    ELSE <<"user", "cwd">>

\* What a config file can hold: a JSON object defining some of the keys.
FileDicts == Dicts(BOOLEAN, 1..MaxHitsArg)

\* A faulty variant: the loaded file is merged over the options.
MergeConfigFileWins(loaded, opts) ==
    [k \in (DOMAIN loaded) \cup (DOMAIN opts) |->
        IF k \in DOMAIN loaded THEN loaded[k] ELSE opts[k]]

\* options = {**config_load(file), **options}
MergeConfig(loaded, opts) ==
    [k \in (DOMAIN loaded) \cup (DOMAIN opts) |->
        IF k \in DOMAIN opts THEN opts[k] ELSE loaded[k]]

ConfigAdvance ==
    /\ cfgIdx' = cfgIdx + 1
    /\ pc' = IF cfgIdx = Len(config_file_paths(directives))
             THEN "crawl" ELSE "config"

RunVars == <<nFiles, fileIdx, detection_count, success_count, meta, results,
             hits, selection, reads, sel, outcome, summary, moveCalls>>

\* config_load() returned a dictionary: it is merged and success is printed.
ConfigLoadSuccess ==
    /\ pc = "config"
    /\ \E f \in FileDicts :
        /\ options' = MergeConfig(f, options)
        /\ fileValue' = [k \in (DOMAIN f) \cup (DOMAIN fileValue) |->
                            IF k \in DOMAIN f THEN f[k] ELSE fileValue[k]]
    /\ ConfigAdvance
    /\ UNCHANGED <<arguments, directives, crash>>
    /\ UNCHANGED RunVars
    /\ UNCHANGED PartVars

\* open() raised IOError (caught at line 342).
ConfigLoadIOError ==
    /\ pc = "config"
    /\ ConfigAdvance
    /\ UNCHANGED <<arguments, directives, options, fileValue, crash>>
    /\ UNCHANGED RunVars
    /\ UNCHANGED PartVars

\* json.load() or Template.substitute() raised ValueError (caught at line 345).
ConfigLoadValueError ==
    /\ pc = "config"
    /\ ConfigAdvance
    /\ UNCHANGED <<arguments, directives, options, fileValue, crash>>
    /\ UNCHANGED RunVars
    /\ UNCHANGED PartVars

\* Template(path).substitute(environ) raised KeyError for an undefined
\* variable: neither except clause catches it and main() ends.
ConfigLoadKeyError ==
    /\ pc = "config"
    /\ pc' = "crashed"
    /\ crash' = "config"
    /\ UNCHANGED <<arguments, directives, options, cfgIdx, fileValue>>
    /\ UNCHANGED RunVars
    /\ UNCHANGED PartVars

(***************************************************************************)
(* Strings read from the console, as sequences of characters.  "sup2" is   *)
(* U+00B2 SUPERSCRIPT TWO, a character str.isdigit() accepts and int()     *)
(* rejects.                                                                *)
(***************************************************************************)
DecimalDigits == {"0", "1", "2", "3", "4", "5", "6", "7", "8", "9"}

DigitValue(c) ==
    CASE c = "0" -> 0 [] c = "1" -> 1 [] c = "2" -> 2 [] c = "3" -> 3
      [] c = "4" -> 4 [] c = "5" -> 5 [] c = "6" -> 6 [] c = "7" -> 7
      [] c = "8" -> 8 [] c = "9" -> 9

\* str.isdigit(): non-empty and every character has the Unicode digit property.
isdigit(str) ==
    /\ Len(str) > 0
    /\ \A i \in 1..Len(str) : str[i] \in DecimalDigits \cup {"sup2"}

\* int(str) raises ValueError unless every character is a decimal digit.
IntRaises(str) == \E i \in 1..Len(str) : str[i] \notin DecimalDigits

RECURSIVE int(_)
int(str) ==
    IF Len(str) = 0 THEN 0
    ELSE 10 * int(SubSeq(str, 1, Len(str) - 1)) + DigitValue(str[Len(str)])

Inputs ==
    { <<>>,
      <<"s">>, <<"S">>, <<"s", "k", "i", "p">>, <<"S", "K", "I", "P">>,
      <<"S", "k", "i", "p">>,
      <<"q">>, <<"Q">>, <<"q", "u", "i", "t">>, <<"Q", "U", "I", "T">>,
      <<"Q", "u", "i", "t">>,
      <<"0">>, <<"1">>, <<"2">>, <<"3">>, <<"4">>, <<"5">>, <<"0", "2">>,
      <<"-", "1">>, <<"x">>, <<"sup2">> }

\* selection in ['s', 'S', 'skip', 'SKIP']
IsSkip(str) ==
    str \in {<<"s">>, <<"S">>, <<"s", "k", "i", "p">>, <<"S", "K", "I", "P">>}

\* selection in ['q', 'Q', 'quit', 'QUIT']
IsQuit(str) ==
    str \in {<<"q">>, <<"Q">>, <<"q", "u", "i", "t">>, <<"Q", "U", "I", "T">>}

\* A faulty variant: the upper end of the range is left out.
InRangeExclusive(k, n) == 0 < k /\ k < n

\* 0 < int(selection) < len(hits) + 1
InRange(k, n) == 0 < k /\ k < n + 1

\* hits[int(selection) - 1]; sequences here are indexed from 1
HitAt(h, k) == h[k]

(***************************************************************************)
(* Search results and the candidate list (lines 379-390).                  *)
(***************************************************************************)
\* The i-th result of the provider, in provider order.
Candidate(i) == [title |-> i]

\* i = 1; while i < max_hits: hit = next(results); hits.append(hit); i += 1
\* and the loop breaks on StopIteration or MapiNotFoundException.
RECURSIVE CollectFrom(_, _, _, _)
CollectFrom(i, res, max_hits, acc) ==
    IF i < max_hits /\ Len(acc) < Len(res)
    THEN CollectFrom(i + 1, res, max_hits, Append(acc, res[Len(acc) + 1]))
    ELSE acc

CollectHits(res, max_hits) == CollectFrom(1, res, max_hits, <<>>)

\* meta.update(hit)
Update(m, hit) == [m EXCEPT !.title = hit.title]

(***************************************************************************)
(* The summary (lines 464-479) and the end of one loop iteration.          *)
(***************************************************************************)
\* A faulty variant: the partial tier also takes succeeded = detected.
SummarizeNeverGreen(detected, succeeded) ==
    IF detected = 0 THEN "nothing found"
    ELSE IF succeeded = 0 THEN "red"
    ELSE IF succeeded <= detected THEN "yellow"
    ELSE "green"

Summarize(detected, succeeded) ==
    IF detected = 0 THEN "nothing found"
    ELSE IF succeeded = 0 THEN "red"
    ELSE IF succeeded < detected THEN "yellow"
    ELSE "green"

\* `continue`, or the end of the loop body: the next file, or the summary
\* after the last one.
NextFile(detected, succeeded) ==
    IF fileIdx < nFiles
    THEN /\ pc' = "parse"
         /\ fileIdx' = fileIdx + 1
         /\ summary' = summary
    ELSE /\ pc' = "done"
         /\ fileIdx' = fileIdx
         /\ summary' = Summarize(detected, succeeded)

ConfigVars == <<arguments, directives, options, cfgIdx, fileValue>>

NoMeta == [media |-> None, title |-> 0]

(***************************************************************************)
(* The file loop of main() (lines 364-462).                                *)
(***************************************************************************)
\* dir_crawl(targets, **options) returns the list of files; with no file the
\* loop body never runs and the summary follows.
Crawl ==
    /\ pc = "crawl"
    /\ \E n \in 0..MaxFiles :
        /\ nFiles' = n
        /\ IF n = 0
           THEN /\ pc' = "done"
                /\ fileIdx' = 0
                /\ summary' = Summarize(detection_count, success_count)
           ELSE /\ pc' = "parse"
                /\ fileIdx' = 1
                /\ summary' = summary
    /\ UNCHANGED ConfigVars
    /\ UNCHANGED PartVars
    /\ UNCHANGED <<detection_count, success_count, meta, results, hits,
                   selection, reads, sel, outcome, crash, moveCalls>>

\* meta_parse() returned a record (lines 367-370).
ParseOk ==
    /\ pc = "parse"
    /\ \E m \in {"movie", "television"} :
        meta' = [media |-> m, title |-> 0]
    /\ detection_count' = detection_count + 1
    /\ outcome' = [outcome EXCEPT ![fileIdx] = "detected"]
    /\ results' = <<>>
    /\ hits' = <<>>
    /\ selection' = <<>>
    /\ reads' = 0
    /\ sel' = None
    /\ pc' = "search"
    /\ UNCHANGED ConfigVars
    /\ UNCHANGED PartVars
    /\ UNCHANGED <<nFiles, fileIdx, success_count, summary, crash, moveCalls>>

\* meta_parse() raised ValueError('Could not determine media type')
\* (line 267); main() has no handler around the call at line 367.
ParseRaises ==
    /\ pc = "parse"
    /\ outcome' = [outcome EXCEPT ![fileIdx] = "parse failed"]
    /\ crash' = "parse"
    /\ pc' = "crashed"
    /\ UNCHANGED ConfigVars
    /\ UNCHANGED PartVars
    /\ UNCHANGED <<nFiles, fileIdx, detection_count, success_count, meta,
                   results, hits, selection, reads, sel, summary, moveCalls>>

\* A faulty variant: the batch test is inverted.
IsBatchInverted(opts) == opts.batch # TRUE

\* `if options['batch'] is True` (line 398)
IsBatch(opts) == opts.batch = TRUE

\* Lines 379-403: the search, the candidate list, the no-hit skip and the
\* batch selection.
Search ==
    /\ pc = "search"
    /\ \E n \in 0..MaxResults :
        results' = [i \in 1..n |-> Candidate(i)]
    /\ hits' = CollectHits(results', options.max_hits)
    /\ IF hits' = <<>>
       THEN /\ outcome' = [outcome EXCEPT ![fileIdx] = "no match"]
            /\ NextFile(detection_count, success_count)
            /\ UNCHANGED <<meta, sel>>
       ELSE IF IsBatch(options)
       THEN /\ meta' = Update(meta, hits'[1])
            /\ sel' = "Chosen"
            /\ pc' = "process"
            /\ UNCHANGED <<outcome, fileIdx, summary>>
       ELSE /\ sel' = "Presenting"
            /\ pc' = "prompt"
            /\ UNCHANGED <<meta, outcome, fileIdx, summary>>
    /\ UNCHANGED ConfigVars
    /\ UNCHANGED PartVars
    /\ UNCHANGED <<nFiles, detection_count, success_count, selection, reads,
                   crash, moveCalls>>

\* A faulty variant: `continue` in place of `return`.
AbortRunContinues == NextFile(detection_count, success_count)

\* `return` at line 440: main() ends, the loop and the summary are not reached.
AbortRun ==
    /\ pc' = "aborted"
    /\ UNCHANGED <<fileIdx, summary>>

\* A faulty variant: no `continue`, the skipped file goes on to processing.
SkipFileFallsThrough ==
    /\ pc' = "process"
    /\ UNCHANGED <<fileIdx, summary>>

\* `continue` at line 435: on to the next file.
SkipFile == NextFile(detection_count, success_count)

\* One pass of the `while True` loop (lines 405-440): input() returns a
\* string and the elif chain decides.
Input ==
    /\ pc = "prompt"
    /\ reads < MaxReads
    /\ reads' = reads + 1
    /\ \E str \in Inputs :
        /\ selection' = str
        /\ IF str = <<>>
           THEN /\ meta' = Update(meta, hits[1])
                /\ sel' = "Chosen"
                /\ pc' = "process"
                /\ UNCHANGED <<outcome, fileIdx, summary, crash>>
           ELSE IF IsSkip(str)
           THEN /\ sel' = "Skipped"
                /\ outcome' = [outcome EXCEPT ![fileIdx] = "skipped"]
                /\ SkipFile
                /\ UNCHANGED <<meta, crash>>
           ELSE IF IsQuit(str)
           THEN /\ sel' = "Aborted"
                /\ outcome' = [outcome EXCEPT ![fileIdx] = "aborted"]
                /\ AbortRun
                /\ UNCHANGED <<meta, crash>>
           ELSE IF isdigit(str) /\ IntRaises(str)
           THEN /\ crash' = "input"
                /\ pc' = "crashed"
                /\ UNCHANGED <<meta, sel, outcome, fileIdx, summary>>
           ELSE IF isdigit(str) /\ InRange(int(str), Len(hits))
           THEN /\ meta' = Update(meta, HitAt(hits, int(str)))
                /\ sel' = "Chosen"
                /\ pc' = "process"
                /\ UNCHANGED <<outcome, fileIdx, summary, crash>>
           ELSE /\ UNCHANGED <<meta, sel, outcome, fileIdx, summary, crash,
                               pc>>
    /\ UNCHANGED ConfigVars
    /\ UNCHANGED PartVars
    /\ UNCHANGED <<nFiles, detection_count, success_count, results, hits,
                   moveCalls>>

\* A faulty variant: the directive is looked up under a name it never has.
IsTestRunNever(d) == FALSE

\* `directives['test_run'] is True` (line 451)
IsTestRun(d) == d.test_run = TRUE

\* A faulty variant: a test run does not count the file as a success.
ProcessTestRunNotCounted ==
    /\ pc = "process"
    /\ IsTestRun(directives)
    /\ outcome' = [outcome EXCEPT ![fileIdx] = "reported"]
    /\ NextFile(detection_count, success_count)
    /\ UNCHANGED ConfigVars
    /\ UNCHANGED PartVars
    /\ UNCHANGED <<nFiles, detection_count, success_count, meta, results,
                   hits, selection, reads, sel, crash, moveCalls>>

\* Lines 443-462 with the test_run directive: move() is not called.
ProcessTestRun ==
    /\ pc = "process"
    /\ IsTestRun(directives)
    /\ outcome' = [outcome EXCEPT ![fileIdx] = "reported"]
    /\ success_count' = success_count + 1
    /\ NextFile(detection_count, success_count')
    /\ UNCHANGED ConfigVars
    /\ UNCHANGED PartVars
    /\ UNCHANGED <<nFiles, detection_count, meta, results, hits, selection,
                   reads, sel, crash, moveCalls>>

\* move() returned.
ProcessMoved ==
    /\ pc = "process"
    /\ ~IsTestRun(directives)
    /\ moveCalls' = [moveCalls EXCEPT ![fileIdx] = @ + 1]
    /\ outcome' = [outcome EXCEPT ![fileIdx] = "moved"]
    /\ success_count' = success_count + 1
    /\ NextFile(detection_count, success_count')
    /\ UNCHANGED ConfigVars
    /\ UNCHANGED PartVars
    /\ UNCHANGED <<nFiles, detection_count, meta, results, hits, selection,
                   reads, sel, crash>>

\* A faulty variant: the handler lacks its `continue` and falls through to the
\* success lines.
ProcessIOErrorFallsThrough ==
    /\ pc = "process"
    /\ ~IsTestRun(directives)
    /\ moveCalls' = [moveCalls EXCEPT ![fileIdx] = @ + 1]
    /\ outcome' = [outcome EXCEPT ![fileIdx] = "move failed"]
    /\ success_count' = success_count + 1
    /\ NextFile(detection_count, success_count')
    /\ UNCHANGED ConfigVars
    /\ UNCHANGED PartVars
    /\ UNCHANGED <<nFiles, detection_count, meta, results, hits, selection,
                   reads, sel, crash>>

\* move() raised IOError (lines 453-457).
ProcessIOError ==
    /\ pc = "process"
    /\ ~IsTestRun(directives)
    /\ moveCalls' = [moveCalls EXCEPT ![fileIdx] = @ + 1]
    /\ outcome' = [outcome EXCEPT ![fileIdx] = "move failed"]
    /\ NextFile(detection_count, success_count)
    /\ UNCHANGED ConfigVars
    /\ UNCHANGED PartVars
    /\ UNCHANGED <<nFiles, detection_count, success_count, meta, results,
                   hits, selection, reads, sel, crash>>

(***************************************************************************)
(* The program.                                                            *)
(***************************************************************************)
\* The state when get_parameters() has returned (line 330).
Init ==
    /\ pc = "config"
    /\ arguments \in ArgumentValues
    /\ directives \in DirectiveValues
    /\ options = InitialOptions(arguments)
    /\ cfgIdx = 1
    /\ fileValue = EmptyDict
    /\ nFiles = 0
    /\ fileIdx = 0
    /\ detection_count = 0
    /\ success_count = 0
    /\ meta = NoMeta
    /\ results = <<>>
    /\ hits = <<>>
    /\ selection = <<>>
    /\ reads = 0
    /\ sel = None
    /\ outcome = [f \in 1..MaxFiles |-> "untouched"]
    /\ moveCalls = [f \in 1..MaxFiles |-> 0]
    /\ console = <<>>
    /\ scan = None
    /\ reloc = None
    /\ summary = None
    /\ crash = None

Next ==
    \/ ConfigLoadSuccess
    \/ ConfigLoadIOError
    \/ ConfigLoadValueError
    \/ ConfigLoadKeyError
    \/ Crawl
    \/ ParseOk
    \/ ParseRaises
    \/ Search
    \/ Input
    \/ ProcessTestRun
    \/ ProcessMoved
    \/ ProcessIOError

Spec == Init /\ [][Next]_vars

(***************************************************************************)
(* The config loop of main() (lines 338-347) with its console output and   *)
(* the verbose option.                                                     *)
(***************************************************************************)
\* The dictionaries of D, and each of them with a verbose value from V added.
WithVerbose(D, V) ==
    D \cup {[k \in (DOMAIN d) \cup {"verbose"} |->
                IF k = "verbose" THEN v ELSE d[k]] : d \in D, v \in V}

\* A faulty variant: the diagnostic does not look at the option.
IsVerboseAlways(opts) == TRUE

\* `options.get('verbose') is True` (lines 343, 346)
IsVerbose(opts) == "verbose" \in DOMAIN opts /\ opts.verbose = TRUE

\* the diagnostic of a failed load, printed only when verbose
Diagnostic(opts, text) == IF IsVerbose(opts) THEN text ELSE "silent"

\* Lines 339-341: config_load() returned, the dictionary is merged and
\* 'success loading config' is printed.
LoadSucceeds ==
    /\ pc = "config"
    /\ \E f \in WithVerbose(FileDicts, BOOLEAN) :
        /\ options' = MergeConfig(f, options)
        /\ fileValue' = [k \in (DOMAIN f) \cup (DOMAIN fileValue) |->
                            IF k \in DOMAIN f THEN f[k] ELSE fileValue[k]]
    /\ console' = Append(console, "success")
    /\ ConfigAdvance
    /\ UNCHANGED <<arguments, directives, crash, scan, reloc>>
    /\ UNCHANGED RunVars

\* Lines 342-344: open() raised IOError (the file is missing or unreadable).
LoadFileError ==
    /\ pc = "config"
    /\ console' = Append(console, Diagnostic(options, "file error"))
    /\ ConfigAdvance
    /\ UNCHANGED <<arguments, directives, options, fileValue, crash, scan,
                   reloc>>
    /\ UNCHANGED RunVars

\* Lines 345-347: json.load() raised ValueError (the file does not parse).
LoadValueError ==
    /\ pc = "config"
    /\ console' = Append(console, Diagnostic(options, "value error"))
    /\ ConfigAdvance
    /\ UNCHANGED <<arguments, directives, options, fileValue, crash, scan,
                   reloc>>
    /\ UNCHANGED RunVars

\* Line 177: Template(path).substitute(environ) raised KeyError, which no
\* except clause catches.
LoadKeyError ==
    /\ pc = "config"
    /\ pc' = "crashed"
    /\ crash' = "config"
    /\ UNCHANGED <<arguments, directives, options, cfgIdx, fileValue>>
    /\ UNCHANGED RunVars
    /\ UNCHANGED PartVars

\* The state when get_parameters() has returned, --verbose included.
InitConfig ==
    /\ pc = "config"
    /\ arguments \in WithVerbose(ArgumentValues, {TRUE})
    /\ directives \in DirectiveValues
    /\ options = InitialOptions(arguments)
    /\ cfgIdx = 1
    /\ fileValue = EmptyDict
    /\ nFiles = 0
    /\ fileIdx = 0
    /\ detection_count = 0
    /\ success_count = 0
    /\ meta = NoMeta
    /\ results = <<>>
    /\ hits = <<>>
    /\ selection = <<>>
    /\ reads = 0
    /\ sel = None
    /\ outcome = [f \in 1..MaxFiles |-> "untouched"]
    /\ summary = None
    /\ crash = None
    /\ moveCalls = [f \in 1..MaxFiles |-> 0]
    /\ console = <<>>
    /\ scan = None
    /\ reloc = None

NextConfig ==
    \/ LoadSucceeds
    \/ LoadFileError
    \/ LoadValueError
    \/ LoadKeyError
    \/ Crawl

SpecConfig == InitConfig /\ [][NextConfig]_vars

(***************************************************************************)
(* dir_crawl() and dir_scan() (lines 190-220) on a small file system:      *)
(*     top/a  top/sub/c  top/sub/loop -> top  top/b                        *)
(* "./top/a" is a second spelling of top/a, "gone" does not exist, and     *)
(* top/sub/loop is a symbolic link to the directory top.                   *)
(***************************************************************************)
TargetNames == {"top", "top/sub", "top/a", "./top/a", "gone", "top/sub/loop"}

is_file(p) == p \in {"top/a", "./top/a", "top/b", "top/sub/c"}
is_dir(p) == p \in {"top", "top/sub", "top/sub/loop"}
is_symlink(p) == p = "top/sub/loop"
exists(p) == is_file(p) \/ is_dir(p)

\* Path.iterdir(), in the order the file system lists the entries
iterdir(p) ==
    CASE p = "top" -> <<"top/a", "top/sub", "top/b">>
      [] p = "top/sub" -> <<"top/sub/c", "top/sub/loop">>
      [] p = "top/sub/loop" -> <<"top/a", "top/sub", "top/b">>
      [] OTHER -> <<>>

\* Path.resolve(): the absolute path with links and dots resolved
resolve(p) == IF p = "./top/a" THEN "top/a" ELSE p

\* The names top/a can have; the other files have fixed names.
Stems ==
    { <<"m">>,
      <<"s", "a", "m", "p", "l", "e">>,
      <<"a", "S", "a", "m", "p", "l", "e", "2">> }

Suffixes ==
    { <<".", "m", "k", "v">>, <<".", "M", "K", "V">>, <<".", "t", "x", "t">>,
      <<>> }

FileNames == [stem : Stems, suffix : Suffixes]

\* Path.stem and Path.suffix of a file, n being the name of top/a
NameOf(p, n) ==
    CASE p \in {"top/a", "./top/a"} -> n
      [] p = "top/b" -> [stem |-> <<"b">>, suffix |-> <<".", "a", "v", "i">>]
      [] OTHER -> [stem |-> <<"c">>, suffix |-> <<".", "m", "k", "v">>]

UpperLetters ==
    <<"A", "B", "C", "D", "E", "F", "G", "H", "I", "J", "K", "L", "M", "N",
      "O", "P", "Q", "R", "S", "T", "U", "V", "W", "X", "Y", "Z">>

LowerLetters ==
    <<"a", "b", "c", "d", "e", "f", "g", "h", "i", "j", "k", "l", "m", "n",
      "o", "p", "q", "r", "s", "t", "u", "v", "w", "x", "y", "z">>

\* str.lower()
str_lower(str) ==
    [i \in 1..Len(str) |->
        IF \E j \in 1..26 : UpperLetters[j] = str[i]
        THEN LowerLetters[CHOOSE j \in 1..26 : UpperLetters[j] = str[i]]
        ELSE str[i]]

\* str.strip(ch): leading and trailing occurrences of ch removed
RECURSIVE str_strip(_, _)
str_strip(str, chars) ==
    IF Len(str) > 0 /\ str[1] \in chars
    THEN str_strip(SubSeq(str, 2, Len(str)), chars)
    ELSE IF Len(str) > 0 /\ str[Len(str)] \in chars
    THEN str_strip(SubSeq(str, 1, Len(str) - 1), chars)
    ELSE str

\* `word in text` for strings
Contains(text, word) ==
    \E i \in 0..(Len(text) - Len(word)) :
        SubSeq(text, i + 1, i + Len(word)) = word

\* the two `continue` tests of lines 202-205, negated
Kept(name, ext_mask, blacklist) ==
    /\ ~(ext_mask # {} /\ str_strip(name.suffix, {"."}) \notin ext_mask)
    /\ ~(\E word \in blacklist : Contains(str_lower(name.stem), word))

RECURSIVE dir_scan(_, _)
RECURSIVE ScanChildren(_, _)

\* the loop of lines 216-220 over the entries of a directory
ScanChildren(children, recurse) ==
    IF children = <<>> THEN <<>>
    ELSE LET child == Head(children)
             here == IF is_file(child) THEN <<child>>
                     ELSE IF recurse /\ is_dir(child) /\ ~is_symlink(child)
                     THEN dir_scan(child, TRUE)
                     ELSE <<>>
         IN here \o ScanChildren(Tail(children), recurse)

dir_scan(path, recurse) ==
    IF is_file(path) THEN <<path>>
    ELSE IF is_dir(path) /\ ~is_symlink(path)
    THEN ScanChildren(iterdir(path), recurse)
    ELSE <<>>

\* the files of one target that pass lines 202-205, resolved (line 206)
RECURSIVE KeepResolved(_, _, _, _)
KeepResolved(found, n, ext_mask, blacklist) ==
    IF found = <<>> THEN <<>>
    ELSE (IF Kept(NameOf(Head(found), n), ext_mask, blacklist)
          THEN <<resolve(Head(found))>> ELSE <<>>)
         \o KeepResolved(Tail(found), n, ext_mask, blacklist)

\* the loop over the targets, lines 197-206
RECURSIVE CrawlTargets(_, _, _, _, _)
CrawlTargets(targets, recurse, n, ext_mask, blacklist) ==
    IF targets = <<>> THEN <<>>
    ELSE (IF ~exists(Head(targets)) THEN <<>>
          ELSE KeepResolved(dir_scan(Head(targets), recurse), n, ext_mask,
                            blacklist))
         \o CrawlTargets(Tail(targets), recurse, n, ext_mask, blacklist)

\* A faulty variant: the list is returned as it was collected.
NotDeduplicated(files, seen) == files

\* [f for f in files if not (f in seen or seen_add(f))] (lines 207-209)
RECURSIVE Deduplicate(_, _)
Deduplicate(files, seen) ==
    IF files = <<>> THEN <<>>
    ELSE IF Head(files) \in seen THEN Deduplicate(Tail(files), seen)
    ELSE <<Head(files)>> \o Deduplicate(Tail(files), seen \cup {Head(files)})

dir_crawl(targets, recurse, n, ext_mask, blacklist) ==
    Deduplicate(CrawlTargets(targets, recurse, n, ext_mask, blacklist), {})

\* all sequences over S of length at most n
SeqsUpTo(S, n) == UNION {[1..k -> S] : k \in 0..n}

ExtensionMasks ==
    { {}, {<<"m", "k", "v">>}, {<<"M", "K", "V">>, <<"a", "v", "i">>} }

Blacklists ==
    { {<<"s", "a", "m", "p", "l", "e">>, <<"r", "a", "r", "b", "g">>},
      {<<"S", "a", "m", "p", "l", "e">>},
      {} }

\* dir_crawl() is called.
InitCrawl ==
    /\ scan \in [pc : {"called"},
                 targets : SeqsUpTo(TargetNames, MaxTargets),
                 recurse : BOOLEAN,
                 name : FileNames,
                 extension_mask : ExtensionMasks,
                 blacklist : Blacklists,
                 files : {<<>>}]
    /\ pc = "crawl"
    /\ arguments = EmptyDict
    /\ directives = [test_run |-> FALSE, config_load |-> None]
    /\ options = InitialOptions(arguments)
    /\ cfgIdx = 1
    /\ fileValue = EmptyDict
    /\ nFiles = 0
    /\ fileIdx = 0
    /\ detection_count = 0
    /\ success_count = 0
    /\ meta = NoMeta
    /\ results = <<>>
    /\ hits = <<>>
    /\ selection = <<>>
    /\ reads = 0
    /\ sel = None
    /\ outcome = [f \in 1..MaxFiles |-> "untouched"]
    /\ summary = None
    /\ crash = None
    /\ moveCalls = [f \in 1..MaxFiles |-> 0]
    /\ console = <<>>
    /\ reloc = None

\* dir_crawl() returns its list.
DirCrawl ==
    /\ scan.pc = "called"
    /\ scan' = [scan EXCEPT
                  !.pc = "returned",
                  !.files = dir_crawl(scan.targets, scan.recurse, scan.name,
                                      scan.extension_mask, scan.blacklist)]
    /\ UNCHANGED ConfigVars
    /\ UNCHANGED RunVars
    /\ UNCHANGED <<pc, crash, console, reloc>>

NextCrawl == DirCrawl

SpecCrawl == InitCrawl /\ [][NextCrawl]_vars

(***************************************************************************)
(* Processing one chosen file: main() lines 441-462, move() (lines         *)
(* 312-324) and create_path() (lines 290-309).  The text meta.format()     *)
(* gives for the template comes from the metadata library and is an input; *)
(* "eacute" is U+00E9, "acute" the combining mark U+0301, "tab" U+0009.    *)
(***************************************************************************)
Alphabet == {"A", " ", "&", "-", "eacute"}

Alien_ == <<"A", "l", "i", "e", "n", " ">>

TheThing ==
    <<"T", "h", "e", " ", "T", "h", "i", "n", "g", " ", "(", "1", "9", "8",
      "2", ")">>

TomAndJerry == <<"T", "o", "m", " ", "&", " ", "J", "e", "r", "r", "y">>

FormattedTexts == SeqsUpTo(Alphabet, MaxText) \cup {Alien_, TheThing, TomAndJerry}

\* applies f to every character and concatenates what it gives
RECURSIVE Expand(_, _)
Expand(text, f) ==
    IF text = <<>> THEN <<>> ELSE f[Head(text)] \o Expand(Tail(text), f)

Characters(text) == {text[i] : i \in 1..Len(text)}

\* normalize('NFKD', text), line 297
normalize(text) ==
    Expand(text, [c \in Characters(text) |->
                     IF c = "eacute" THEN <<"e", "acute">> ELSE <<c>>])

\* the characters outside the class of line 292
Whitelisted(c) ==
    \/ c \in Characters(UpperLetters) \cup Characters(LowerLetters)
    \/ c \in DecimalDigits
    \/ c \in {" ", "?", "!", ".", ",", "_", "(", ")", "[", "]", "-", "/"}

\* the class of line 293
Separators == {"-", "_", "[", "]"}

\* the characters \s matches and str.strip() removes
Whitespace == {" ", "tab"}

\* sub(r'\s+', sep, text): every run of whitespace becomes one sep
RECURSIVE CollapseWhitespace(_, _)
CollapseWhitespace(text, sep) ==
    IF text = <<>> THEN <<>>
    ELSE IF Head(text) \in Whitespace
    THEN IF Len(text) > 1 /\ text[2] \in Whitespace
         THEN CollapseWhitespace(Tail(text), sep)
         ELSE <<sep>> \o CollapseWhitespace(Tail(text), sep)
    ELSE <<Head(text)>> \o CollapseWhitespace(Tail(text), sep)

\* create_path() from the formatted text on (lines 297-309)
create_path(formatted, lower, dots) ==
    LET normalized == normalize(formatted)
        whitelisted == SelectSeq(normalized, Whitelisted)
        spaced == [i \in 1..Len(whitelisted) |->
                      IF whitelisted[i] \in Separators THEN " "
                      ELSE whitelisted[i]]
        replaced == Expand(spaced, [c \in Characters(spaced) |->
                               IF c = "&" THEN <<"a", "n", "d">> ELSE <<c>>])
        simplified == str_strip(
            CollapseWhitespace(replaced, IF dots THEN "." ELSE " "),
            Whitespace)
    IN IF lower THEN str_lower(simplified) ELSE simplified

SourceParent == <<"/", "s", "r", "c">>

Dst == <<"/", "d", "s", "t">>

\* options['<media>_destination']: the default '', a directory, or null
\* from a configuration file
Destinations ==
    { [isNone |-> FALSE, str |-> <<>>],
      [isNone |-> FALSE, str |-> Dst],
      [isNone |-> TRUE, str |-> <<>>] }

\* str(Path(text))
PathOf(text) == IF text = <<>> THEN <<".">> ELSE text

\* str(directory / name)
Joined(directory, name) ==
    IF name = <<>> \/ name = <<".">> THEN directory
    ELSE IF name[1] = "/" THEN name
    ELSE IF directory = <<".">> THEN name
    ELSE directory \o <<"/">> \o name

\* lines 317-319: a Path is true whatever it holds, None is not
directory_path(destination) ==
    IF destination.isNone THEN SourceParent ELSE PathOf(destination.str)

\* lines 445-449
new_path(destination, reformat) ==
    IF ~destination.isNone /\ destination.str # <<>>
    THEN destination.str \o <<"/">> \o reformat
    ELSE reformat

\* A match has been chosen for the file.
InitRelocate ==
    /\ reloc \in [pc : {"chosen"},
                  formatted : FormattedTexts,
                  lower : BOOLEAN,
                  dots : BOOLEAN,
                  destination : Destinations,
                  test_run : BOOLEAN,
                  new_path : {<<>>},
                  file_path : {<<>>},
                  destination_path : {<<>>},
                  printed : {<<>>}]
    /\ pc = "crawl"
    /\ arguments = EmptyDict
    /\ directives = [test_run |-> FALSE, config_load |-> None]
    /\ options = InitialOptions(arguments)
    /\ cfgIdx = 1
    /\ fileValue = EmptyDict
    /\ nFiles = 0
    /\ fileIdx = 0
    /\ detection_count = 0
    /\ success_count = 0
    /\ meta = NoMeta
    /\ results = <<>>
    /\ hits = <<>>
    /\ selection = <<>>
    /\ reads = 0
    /\ sel = None
    /\ outcome = [f \in 1..MaxFiles |-> "untouched"]
    /\ summary = None
    /\ crash = None
    /\ moveCalls = [f \in 1..MaxFiles |-> 0]
    /\ console = <<>>
    /\ scan = None

RelocateFrame ==
    /\ UNCHANGED ConfigVars
    /\ UNCHANGED RunVars
    /\ UNCHANGED <<pc, crash, console, scan>>

\* lines 443-449: the path to report is built.
Reformat ==
    /\ reloc.pc = "chosen"
    /\ reloc' = [reloc EXCEPT
                   !.pc = "formatted",
                   !.new_path = new_path(reloc.destination, reloc.formatted)]
    /\ RelocateFrame

\* line 451 with test_run set: move() is not called.
RelocateTestRun ==
    /\ reloc.pc = "formatted"
    /\ reloc.test_run
    /\ reloc' = [reloc EXCEPT !.pc = "done"]
    /\ RelocateFrame

\* move() relocates the file (lines 312-324).
Move ==
    /\ reloc.pc = "formatted"
    /\ ~reloc.test_run
    /\ LET file_path == create_path(reloc.formatted, reloc.lower, reloc.dots)
       IN reloc' = [reloc EXCEPT
                      !.pc = "done",
                      !.file_path = file_path,
                      !.destination_path =
                          Joined(directory_path(reloc.destination), file_path)]
    /\ RelocateFrame

\* mkdir() or shutil.move() raises IOError: nothing is reported (453-457).
MoveRaises ==
    /\ reloc.pc = "formatted"
    /\ ~reloc.test_run
    /\ reloc' = [reloc EXCEPT
                   !.pc = "failed",
                   !.file_path = create_path(reloc.formatted, reloc.lower,
                                             reloc.dots)]
    /\ RelocateFrame

\* line 459: the destination is reported.
PrintNewPath ==
    /\ reloc.pc = "done"
    /\ reloc' = [reloc EXCEPT !.pc = "reported", !.printed = reloc.new_path]
    /\ RelocateFrame

NextRelocate ==
    \/ Reformat
    \/ RelocateTestRun
    \/ Move
    \/ MoveRaises
    \/ PrintNewPath

SpecRelocate == InitRelocate /\ [][NextRelocate]_vars

(***************************************************************************)
(* Notions the properties below are stated with.                           *)
(***************************************************************************)
ConfigResolved == pc \notin {"config", "crashed"}

Min(a, b) == IF a < b THEN a ELSE b

\* str.lower() on the letters the console strings use
LowerChar(c) ==
    CASE c = "S" -> "s" [] c = "K" -> "k" [] c = "I" -> "i" [] c = "P" -> "p"
      [] c = "Q" -> "q" [] c = "U" -> "u" [] c = "T" -> "t" [] OTHER -> c

Lower(str) == [i \in 1..Len(str) |-> LowerChar(str[i])]

SkipWords == {<<"s">>, <<"s", "k", "i", "p">>}
QuitWords == {<<"q">>, <<"q", "u", "i", "t">>}

\* a decimal integer: one or more of the characters 0-9
IsDecimal(str) ==
    Len(str) > 0 /\ \A i \in 1..Len(str) : str[i] \in DecimalDigits

\* the input selects one of n presented candidates
IsChoice(str, n) == IsDecimal(str) /\ 1 <= int(str) /\ int(str) <= n

\* an input that is neither empty, nor a skip or quit word in any letter
\* case, nor the number of a presented candidate
IsOtherInput(str, n) ==
    /\ str # <<>>
    /\ Lower(str) \notin SkipWords \cup QuitWords
    /\ ~IsChoice(str, n)

Aborted == \E f \in 1..MaxFiles : outcome[f] = "aborted"

\* the file whose loop iteration ended last (0 before the first one ends)
LastEnded == IF pc = "parse" THEN fileIdx - 1 ELSE fileIdx

(***************************************************************************)
(* C1 .. C10                                                               *)
(***************************************************************************)

\* C1: once every candidate config file has been processed, an option key
\* that was not given on the command line has the value of the last loaded
\* config file that defines it, and its built-in default when no file does.
C1_FileOverridesDefault ==
    ConfigResolved =>
        \A k \in OptionKeys \ DOMAIN arguments :
            options[k] = IF k \in DOMAIN fileValue THEN fileValue[k]
                         ELSE defaults[k]

\* C2: an option key given on the command line keeps the command-line value
\* through every config file load.
C2_CliValueWins ==
    \A k \in DOMAIN arguments : options[k] = arguments[k]

\* C2 witness: resolution is over, and a loaded file defined a key given on
\* the command line with another value.
C2_Witness ==
    /\ ConfigResolved
    /\ \E k \in (DOMAIN arguments) \cap (DOMAIN fileValue) :
          fileValue[k] # arguments[k]

\* C3: without batch, when the last input read for a file with a non-empty
\* candidate list is empty, the loop has ended in Chosen with the first
\* candidate merged; when it is the decimal integer k with 1 <= k <= n, it
\* has ended in Chosen with candidate k merged.
C3_DefaultAndNumericChoice ==
    (reads > 0 /\ hits # <<>>) =>
        /\ selection = <<>> =>
              /\ sel = "Chosen"
              /\ pc # "prompt"
              /\ meta.title = hits[1].title
        /\ IsChoice(selection, Len(hits)) =>
              /\ sel = "Chosen"
              /\ pc # "prompt"
              /\ meta.title = hits[int(selection)].title

\* C3 witness: three candidates, "3" was read, the third one is merged and
\* the file is about to be processed.
C3_Witness ==
    /\ pc = "process"
    /\ Len(hits) = 3
    /\ selection = <<"3">>
    /\ sel = "Chosen"
    /\ meta.title = hits[3].title

\* C4: an input that is a skip word in any letter case ends the selection
\* in Skipped, and a quit word in any letter case ends it in Aborted.
C4_CaseInsensitiveWords ==
    reads > 0 =>
        /\ Lower(selection) \in SkipWords => sel = "Skipped"
        /\ Lower(selection) \in QuitWords => sel = "Aborted"

\* C5: reading an input that is not empty, not a skip or quit word and not
\* the number of a presented candidate leaves the engine prompting, raises
\* nothing and changes neither the metadata nor the counters.
C5_OtherInputReprompts ==
    [][(pc = "prompt" /\ reads' = reads + 1
            /\ IsOtherInput(selection', Len(hits)))
        => /\ pc' = "prompt"
           /\ sel' = "Presenting"
           /\ crash' = None
           /\ UNCHANGED <<meta, detection_count, success_count>>]_vars

\* C6: once a selection has ended in Aborted the run takes no further step:
\* no later file is touched, the aborted file is not moved, no summary is
\* printed and the counters stay as they were.
C6_AbortStopsRun ==
    /\ [](Aborted =>
            /\ pc = "aborted"
            /\ outcome[fileIdx] = "aborted"
            /\ \A f \in 1..MaxFiles : f > fileIdx => outcome[f] = "untouched"
            /\ summary = None)
    /\ [][Aborted => UNCHANGED vars]_vars

\* C6 witness: the first of two files was aborted.
C6_Witness ==
    /\ nFiles = 2
    /\ fileIdx = 1
    /\ outcome[1] = "aborted"
    /\ outcome[2] = "untouched"
    /\ detection_count = 1

\* C7: a file whose parse fails is the only thing abandoned: the run goes
\* on, and nothing but a configuration error ends the run with an exception.
C7_ParseFailureIsolated ==
    /\ \A f \in 1..MaxFiles : outcome[f] = "parse failed" => pc # "crashed"
    /\ pc = "crashed" => crash = "config"

\* C8: when the move of a chosen file raises an I/O error, the counters stay
\* as they are, with the file counted as detected and not as succeeded, and
\* the run goes on to the next file (to the summary after the last one).
C8_MoveFailureContinues ==
    [][(pc = "process" /\ outcome'[fileIdx] = "move failed")
        => /\ success_count' = success_count
           /\ detection_count' = detection_count
           /\ detection_count' > success_count'
           /\ crash' = None
           /\ IF fileIdx < nFiles
              THEN pc' = "parse" /\ fileIdx' = fileIdx + 1
              ELSE pc' = "done" /\ summary' # None]_vars

\* C8 witness: the first file's move failed and the second file is being
\* searched.
C8_Witness ==
    /\ outcome[1] = "move failed"
    /\ fileIdx = 2
    /\ pc = "search"
    /\ detection_count = 2
    /\ success_count = 0

\* C9: the candidate list is the first min(N, max_hits) of the N results the
\* search yielded, so a file is skipped as "no match" only when N = 0.
C9_FirstMinResults ==
    /\ hits = SubSeq(results, 1, Min(Len(results), options.max_hits))
    /\ (LastEnded >= 1 /\ outcome[LastEnded] = "no match") => results = <<>>

\* C10: in batch mode a file with candidates has the first one merged with
\* no input read and goes to relocation; nothing is skipped or aborted.
C10_BatchChoosesFirst ==
    (ConfigResolved /\ options.batch = TRUE) =>
        /\ reads = 0
        /\ pc # "prompt"
        /\ \A f \in 1..MaxFiles : outcome[f] \notin {"skipped", "aborted"}
        /\ hits # <<>> =>
              /\ sel = "Chosen"
              /\ meta.title = hits[1].title
              /\ pc \in {"process", "parse", "done"}
              /\ pc # "process" =>
                    outcome[LastEnded] \in {"moved", "move failed", "reported"}

\* C10 witness: batch mode, two or more candidates, the first one merged and
\* the file about to be processed.
C10_Witness ==
    /\ options.batch = TRUE
    /\ pc = "process"
    /\ Len(hits) >= 2
    /\ reads = 0
    /\ meta.title = hits[1].title

(***************************************************************************)
(* C11, C12, C18, C19: the run                                             *)
(***************************************************************************)
Files == 1..MaxFiles

\* C11: with the test_run directive move() is called for no file, and every
\* file whose selection ended in Chosen has its destination reported.
C11_DryRunNeverMoves ==
    directives.test_run = TRUE =>
        /\ \A f \in Files :
              /\ moveCalls[f] = 0
              /\ outcome[f] \notin {"moved", "move failed"}
        /\ (pc \in {"parse", "done"} /\ LastEnded >= 1 /\ sel = "Chosen")
              => outcome[LastEnded] = "reported"

\* C11 witness: a test run in which both files were chosen and reported.
C11_Witness ==
    /\ directives.test_run = TRUE
    /\ pc = "done"
    /\ outcome = <<"reported", "reported">>
    /\ moveCalls = <<0, 0>>

\* C12: a run that reaches its end prints "nothing found" and no ratio when
\* nothing was detected, and otherwise the ratio as none-succeeded (red),
\* partial (yellow) or all-succeeded (green).
C12_SummaryTiers ==
    pc = "done" =>
        /\ detection_count = 0 => summary = "nothing found"
        /\ (detection_count > 0 /\ success_count = 0) => summary = "red"
        /\ (0 < success_count /\ success_count < detection_count)
              => summary = "yellow"
        /\ (detection_count > 0 /\ success_count = detection_count)
              => summary = "green"

\* C12 witness: two files detected and both processed with success.
C12_Witness ==
    /\ pc = "done"
    /\ detection_count = 2
    /\ success_count = 2
    /\ summary = "green"

C19_MoveOnlyAfterChosen ==
    /\ [](\A f \in Files :
            /\ moveCalls[f] <= 1
            /\ outcome[f] \in {"no match", "skipped", "aborted"}
                  => moveCalls[f] = 0)
    /\ [][\A f \in Files :
            /\ moveCalls'[f] # moveCalls[f] =>
                  /\ f = fileIdx
                  /\ pc = "process"
                  /\ sel = "Chosen"
                  /\ \E i \in 1..Len(hits) : meta.title = hits[i].title
            /\ (outcome'[f] \in {"no match", "skipped"}
                    /\ outcome[f] # outcome'[f]) =>
                  /\ outcome[f] = "detected"
                  /\ UNCHANGED <<detection_count, success_count>>
            /\ outcome[f] \in {"no match", "skipped", "aborted"} =>
                  outcome'[f] = outcome[f]]_vars

\* C19 witness: the first file was skipped, the second chosen and moved.
C19_Witness ==
    /\ outcome = <<"skipped", "moved">>
    /\ moveCalls = <<0, 1>>
    /\ detection_count = 2
    /\ success_count = 1

(***************************************************************************)
(* C17: the config loop                                                    *)
(***************************************************************************)
\* the step is a load that failed with a caught error
LoadFailed ==
    /\ Len(console') = Len(console) + 1
    /\ console'[Len(console')] # "success"

\* C17: a config file that is missing or does not parse leaves the options
\* as they were, the next candidate is attempted (the file loop after the
\* last one), nothing is raised, and the diagnostic is printed exactly when
\* verbose is set; every candidate has been attempted when the loop ends.
C17_LoadFailureHasNoEffect ==
    /\ [](pc = "crawl" => Len(console) = Len(config_file_paths(directives)))
    /\ [][LoadFailed =>
            /\ options' = options
            /\ cfgIdx' = cfgIdx + 1
            /\ crash' = None
            /\ pc' = IF cfgIdx' <= Len(config_file_paths(directives))
                     THEN "config" ELSE "crawl"
            /\ (console'[Len(console')] # "silent") <=> (options.verbose = TRUE)
         ]_vars

\* C17 witness: verbose from the command line, the first candidate missing
\* with its diagnostic printed, the second one loaded, and the files crawled.
C17_Witness ==
    /\ "verbose" \in DOMAIN arguments
    /\ Len(console) >= 2
    /\ console[1] = "file error"
    /\ console[2] = "success"
    /\ pc = "parse"

\* the elements of a sequence
Range(seq) == {seq[i] : i \in 1..Len(seq)}

\* the position at which x first occurs in seq
FirstIndex(seq, x) ==
    CHOOSE i \in 1..Len(seq) : seq[i] = x /\ \A j \in 1..(i - 1) : seq[j] # x

\* the resolved paths in the order the scan met them, repetitions included
Collected ==
    CrawlTargets(scan.targets, scan.recurse, scan.name, scan.extension_mask,
                 scan.blacklist)

\* the targets that exist
Existing == SelectSeq(scan.targets, exists)

\* C13: the list dir_crawl() returns holds each resolved path the scan met
\* exactly once, in the order of first occurrence during the scan, and is
\* the list the existing targets alone would give.
C13_Deduplicated ==
    scan.pc = "returned" =>
        /\ \A i, j \in 1..Len(scan.files) :
              i # j => resolve(scan.files[i]) # resolve(scan.files[j])
        /\ Range(scan.files) = Range(Collected)
        /\ \A i, j \in 1..Len(scan.files) :
              i < j => FirstIndex(Collected, scan.files[i])
                         < FirstIndex(Collected, scan.files[j])
        /\ scan.files = dir_crawl(Existing, scan.recurse, scan.name,
                                  scan.extension_mask, scan.blacklist)

\* C13 witness: a file met twice during the scan is returned once, ahead of
\* a file met later.
C13_Witness ==
    /\ scan.pc = "returned"
    /\ Len(Collected) > Len(scan.files)
    /\ Len(scan.files) >= 2
    /\ Collected[1] = Collected[Len(Collected)]

\* C13 witness of the missing target: it is skipped and the other target
\* still yields its files.
C13_WitnessMissing ==
    /\ scan.pc = "returned"
    /\ Len(scan.targets) = 2
    /\ scan.targets[1] = "gone"
    /\ Len(scan.files) >= 2

\* the filter the way it is described: both tests ignore case
IncludedIgnoringCase(name, ext_mask, blacklist) ==
    /\ \/ ext_mask = {}
       \/ str_lower(str_strip(name.suffix, {"."}))
              \in {str_lower(ext) : ext \in ext_mask}
    /\ ~(\E word \in blacklist :
            Contains(str_lower(name.stem), str_lower(word)))

\* C14: a scanned file is in the returned list exactly when its extension
\* is in the mask (or the mask is empty) and no blacklist term occurs in
\* its stem, both compared without regard to case.
C14_FilterIgnoresCase ==
    scan.pc = "returned" =>
        \A t \in Range(Existing) :
            \A f \in Range(dir_scan(t, scan.recurse)) :
                (resolve(f) \in Range(scan.files))
                    <=> IncludedIgnoringCase(NameOf(f, scan.name),
                                             scan.extension_mask,
                                             scan.blacklist)

\* the number of places at which word occurs in text
Occurrences(text, word) ==
    Cardinality({i \in 0..(Len(text) - Len(word)) :
                    SubSeq(text, i + 1, i + Len(word)) = word})

\* move() has rendered the template
Rendered == reloc.pc \in {"done", "failed", "reported"} /\ ~reloc.test_run

\* C15: with dots set, whitespace around the formatted text leaves no mark
\* on the rendered name: it is the name of the trimmed text, "Alien " gives
\* "Alien" and "The Thing (1982)" gives "The.Thing.(1982)".
C15_TrimmedBeforeDots ==
    Rendered /\ reloc.dots =>
        /\ reloc.file_path
             = create_path(str_strip(reloc.formatted, Whitespace),
                           reloc.lower, TRUE)
        /\ reloc.formatted = Alien_ /\ ~reloc.lower
             => reloc.file_path = <<"A", "l", "i", "e", "n">>
        /\ reloc.formatted = TheThing /\ ~reloc.lower
             => reloc.file_path
                  = <<"T", "h", "e", ".", "T", "h", "i", "n", "g", ".", "(",
                      "1", "9", "8", "2", ")">>

\* C16: the rendered name holds the word and once for every & of the
\* formatted text, and no & .
C16_AmpersandBecomesAnd ==
    Rendered =>
        /\ Occurrences(reloc.file_path, <<"a", "n", "d">>)
             >= Occurrences(reloc.formatted, <<"&">>)
        /\ "&" \notin Characters(reloc.file_path)

\* C20: the destination printed for a moved file is the path move() moved
\* it to, which is the configured destination, or else the parent of the
\* source, joined with what create_path() renders.
C20_ReportedIsMovedTo ==
    reloc.pc = "reported" /\ ~reloc.test_run =>
        /\ PathOf(reloc.printed) = reloc.destination_path
        /\ reloc.destination_path
             = Joined(IF ~reloc.destination.isNone
                         /\ reloc.destination.str # <<>>
                      THEN reloc.destination.str ELSE SourceParent,
                      create_path(reloc.formatted, reloc.lower, reloc.dots))

====
